---- MODULE Spec2Model ----
(***************************************************************************)
(* RCC beam designer (satyajit2online/Load-Distribution).                  *)
(*                                                                         *)
(* The engine in src/utils/rccCalculations.ts is three pure functions,     *)
(* calculateLoads -> analyzeBeam -> designBeam, that the App component     *)
(* calls on every render.  Each function is an action here; the state      *)
(* holds the record each one returns.                                      *)
(*                                                                         *)
(* Numbers.  A JavaScript number is modelled as an exact rational <<n, d>> *)
(* in lowest terms with d > 0, or one of the three IEEE specials           *)
(*     <<1, 0>> = +Infinity    <<-1, 0>> = -Infinity    <<0, 0>> = NaN.     *)
(* calculateLoads and analyzeBeam are computed exactly, so a relation that *)
(* holds of them here holds of the code up to floating-point rounding.     *)
(* designBeam rounds every result to SigDigits significant digits (see     *)
(* "Rounded arithmetic"); Math.PI, Math.sqrt and Math.log10 are to that    *)
(* precision or coarser (see each).                                        *)
(***************************************************************************)
EXTENDS Integers, Sequences, FiniteSets, TLC

VARIABLES
    inputs,     \* the DesignInputs record held in the App's state
    loads,      \* the LoadResult of calculateLoads(inputs)
    analysis,   \* the AnalysisResult of analyzeBeam(inputs, loads)
    design,     \* the DesignResult of designBeam(inputs, analysis)
    view,       \* what the App's load table rendered
    call,       \* a direct call of one of the engine's internal functions
    pc,         \* how far the pipeline has run
    heap,       \* the objects that inputs and the saved designs refer to
    savedDesigns,   \* the App's savedDesigns state
    aiReport,       \* the App's aiReport state
    isGeneratingAi, \* the App's isGeneratingAi state
    reports,        \* the calls of generateDesignReport that have not settled
    events          \* how many events the App has handled

appVars == <<heap, savedDesigns, aiReport, isGeneratingAi, reports, events>>

vars == <<inputs, loads, analysis, design, view, call, pc, heap, savedDesigns, aiReport,
          isGeneratingAi, reports, events>>

Null == "null"

\* The App's own state where only the engine is exercised.
AppAtRest ==
    /\ heap = <<>>
    /\ savedDesigns = <<>>
    /\ aiReport = Null
    /\ isGeneratingAi = FALSE
    /\ reports = <<>>
    /\ events = 0

-----------------------------------------------------------------------------
(* Rational arithmetic with IEEE specials                                  *)

Abs(i) == IF i < 0 THEN -i ELSE i

Sign(i) == IF i > 0 THEN 1 ELSE IF i < 0 THEN -1 ELSE 0

RECURSIVE Gcd(_, _)
Gcd(a, b) == IF b = 0 THEN a ELSE Gcd(b, a % b)

\* The number n/d; d = 0 gives +Infinity, -Infinity or NaN by the sign of n.
R(n, d) ==
    IF d = 0 THEN <<Sign(n), 0>>
    ELSE LET g == Gcd(Abs(n), Abs(d))
             s == IF d < 0 THEN -1 ELSE 1
         IN  <<(s * n) \div g, (s * d) \div g>>

I(n) == <<n, 1>>

NaN == <<0, 0>>

PosInf == <<1, 0>>

IsNaN(x) == x = NaN

IsFinite(x) == x[2] # 0

IsZero(x) == x[2] # 0 /\ x[1] = 0

RSign(x) == Sign(x[1])

RNeg(x) == <<-x[1], x[2]>>

RAdd(x, y) ==
    IF IsNaN(x) \/ IsNaN(y) THEN NaN
    ELSE IF ~IsFinite(x) THEN (IF ~IsFinite(y) /\ y # x THEN NaN ELSE x)
    ELSE IF ~IsFinite(y) THEN y
    ELSE LET g == Gcd(x[2], y[2])
         IN  R(x[1] * (y[2] \div g) + y[1] * (x[2] \div g), (x[2] \div g) * y[2])

RSub(x, y) == RAdd(x, RNeg(y))

RMul(x, y) ==
    IF IsNaN(x) \/ IsNaN(y) THEN NaN
    ELSE IF ~IsFinite(x) \/ ~IsFinite(y)
         THEN (IF IsZero(x) \/ IsZero(y) THEN NaN ELSE <<RSign(x) * RSign(y), 0>>)
    ELSE IF x[1] = 0 \/ y[1] = 0 THEN <<0, 1>>
    ELSE LET g1 == Gcd(Abs(x[1]), y[2])
             g2 == Gcd(Abs(y[1]), x[2])
         IN  <<(x[1] \div g1) * (y[1] \div g2), (x[2] \div g2) * (y[2] \div g1)>>

\* 1/x: 1/0 is +Infinity (the model has no negative zero), 1/Infinity is 0.
RInv(x) ==
    IF IsNaN(x) THEN NaN
    ELSE IF ~IsFinite(x) THEN <<0, 1>>
    ELSE IF x[1] = 0 THEN PosInf
    ELSE IF x[1] < 0 THEN <<-x[2], -x[1]>> ELSE <<x[2], x[1]>>

\* x / y as JavaScript divides: 0/0 and Infinity/Infinity are NaN.
RDiv(x, y) ==
    IF IsNaN(x) \/ IsNaN(y) THEN NaN
    ELSE IF IsZero(y) THEN <<RSign(x), 0>>
    ELSE RMul(x, RInv(y))

\* Sign of a/b - c/d for b, d > 0, by continued fractions (no cross product).
RECURSIVE CmpFrac(_, _, _, _)
CmpFrac(a, b, c, d) ==
    LET qa == a \div b
        qc == c \div d
        ra == a % b
        rc == c % d
    IN  IF qa # qc THEN (IF qa < qc THEN -1 ELSE 1)
        ELSE IF ra = 0 /\ rc = 0 THEN 0
        ELSE IF ra = 0 THEN -1
        ELSE IF rc = 0 THEN 1
        ELSE CmpFrac(d, rc, b, ra)

\* Sign of x - y for two numbers neither of which is NaN.
RCmp(x, y) ==
    IF x = y THEN 0
    ELSE IF ~IsFinite(x) THEN x[1]
    ELSE IF ~IsFinite(y) THEN -y[1]
    ELSE CmpFrac(x[1], x[2], y[1], y[2])

\* The comparisons of JavaScript: every comparison with NaN is false.
RLt(x, y) == ~IsNaN(x) /\ ~IsNaN(y) /\ RCmp(x, y) < 0

RLe(x, y) == ~IsNaN(x) /\ ~IsNaN(y) /\ RCmp(x, y) <= 0

RGt(x, y) == RLt(y, x)

RGe(x, y) == RLe(y, x)

\* Math.min / Math.max: NaN if either argument is NaN.
RMin(x, y) == IF IsNaN(x) \/ IsNaN(y) THEN NaN ELSE IF RCmp(x, y) <= 0 THEN x ELSE y

RMax(x, y) == IF IsNaN(x) \/ IsNaN(y) THEN NaN ELSE IF RCmp(x, y) >= 0 THEN x ELSE y

\* Math.floor / Math.ceil: the specials are returned unchanged.
RFloor(x) == IF ~IsFinite(x) THEN x ELSE <<x[1] \div x[2], 1>>

RCeil(x) == IF ~IsFinite(x) THEN x ELSE <<-((-x[1]) \div x[2]), 1>>

-----------------------------------------------------------------------------
(* Load aggregation: src/utils/rccCalculations.ts, lines 1-103             *)

CONCRETE_DENSITY == 25

MASONRY_DENSITY == 20

PARTIAL_SAFETY_FACTOR_LOAD == R(3, 2)

Thousand == I(1000)

\* A variant that takes the triangular load of a two-way slab as w * Lx / 2.
triangularLoad_asOneWay(totalAreaLoad, lx) == RDiv(RMul(totalAreaLoad, lx), I(2))

\* Beam supports Short Edge -> Triangular Load: w * Lx / 3
triangularLoad(totalAreaLoad, lx) == RDiv(RMul(totalAreaLoad, lx), I(3))

\* Beam supports Long Edge -> Trapezoidal Load:
\* (w * lx / 2) * (1 - 1/(3 * beta^2)) where beta = ly/lx
trapezoidalLoad(totalAreaLoad, lx, ly) ==
    LET beta   == RDiv(ly, lx)
        factor == RSub(I(1), RDiv(I(1), RMul(I(3), RMul(beta, beta))))
    IN  RMul(RDiv(RMul(totalAreaLoad, lx), I(2)), factor)

\* A variant that loads the beam from a disabled side as well.
calculateSlabLoadPerMeter_disabledLoads(config, totalAreaLoad) ==
    IF config.type = "OneWay"
    THEN RDiv(RMul(totalAreaLoad, config.lx), I(2))
    ELSE IF config.supportEdge = "Short"
         THEN triangularLoad(totalAreaLoad, config.lx)
    ELSE trapezoidalLoad(totalAreaLoad, config.lx, config.ly)

calculateSlabLoadPerMeter(config, totalAreaLoad) ==
    IF ~config.enabled THEN I(0)
    ELSE IF config.type = "OneWay"
         THEN RDiv(RMul(totalAreaLoad, config.lx), I(2))
    ELSE IF config.supportEdge = "Short"
         THEN triangularLoad(totalAreaLoad, config.lx)
    ELSE trapezoidalLoad(totalAreaLoad, config.lx, config.ly)

\* A variant that leaves the wall out of the service load.
totalServiceLoad_withoutWall(udlTotalSlab, beamSelfWeight, wallLoad) ==
    RAdd(udlTotalSlab, beamSelfWeight)

totalServiceLoad(udlTotalSlab, beamSelfWeight, wallLoad) ==
    RAdd(RAdd(udlTotalSlab, beamSelfWeight), wallLoad)

calculateLoads(inp) ==
    LET dSlabM            == RDiv(inp.slabThickness, Thousand)
        slabSelfWeight    == RMul(dSlabM, I(CONCRETE_DENSITY))
        totalSlabLoadArea == RAdd(RAdd(slabSelfWeight, inp.liveLoad), inp.floorFinish)
        udlFromLeftSlab   == calculateSlabLoadPerMeter(inp.leftSlab, totalSlabLoadArea)
        udlFromRightSlab  == calculateSlabLoadPerMeter(inp.rightSlab, totalSlabLoadArea)
        udlTotalSlab      == RAdd(udlFromLeftSlab, udlFromRightSlab)
        bM                == RDiv(inp.beamWidth, Thousand)
        dM                == RDiv(inp.beamDepth, Thousand)
        beamSelfWeight    == RMul(RMul(bM, dM), I(CONCRETE_DENSITY))
        wallThickM        == RDiv(inp.wallThickness, Thousand)
        wallLoad          == RMul(RMul(wallThickM, inp.wallHeight), I(MASONRY_DENSITY))
        totalDesignUDL    == RMul(totalServiceLoad(udlTotalSlab, beamSelfWeight, wallLoad),
                                  PARTIAL_SAFETY_FACTOR_LOAD)
    IN  [ slabSelfWeight    |-> slabSelfWeight,
          totalSlabLoadArea |-> totalSlabLoadArea,
          udlFromLeftSlab   |-> udlFromLeftSlab,
          udlFromRightSlab  |-> udlFromRightSlab,
          udlTotalSlab      |-> udlTotalSlab,
          beamSelfWeight    |-> beamSelfWeight,
          wallLoad          |-> wallLoad,
          totalDesignUDL    |-> totalDesignUDL ]

-----------------------------------------------------------------------------
(* Section analysis: src/utils/rccCalculations.ts, lines 105-118           *)

\* A variant that takes the moment of a beam with fixed ends, w * L^2 / 12.
analyzeBeam_fixedEnds(inp, lds) ==
    LET L == inp.beamClearSpan
        w == lds.totalDesignUDL
    IN  [ maxMoment      |-> RDiv(RMul(RMul(w, L), L), I(12)),
          maxShear       |-> RDiv(RMul(w, L), I(2)),
          effectiveDepth |-> RSub(inp.beamDepth, inp.effectiveCover) ]

analyzeBeam(inp, lds) ==
    LET L == inp.beamClearSpan
        w == lds.totalDesignUDL
    IN  [ maxMoment      |-> RDiv(RMul(RMul(w, L), L), I(8)),
          maxShear       |-> RDiv(RMul(w, L), I(2)),
          effectiveDepth |-> RSub(inp.beamDepth, inp.effectiveCover) ]

-----------------------------------------------------------------------------
(* Rounded arithmetic for designBeam                                       *)
(*                                                                         *)
(* The products and quotients of designBeam do not stay small fractions,   *)
(* so there each operation returns its exact result rounded to SigDigits   *)
(* significant decimal digits (and at most SigDigits decimal places), the  *)
(* way a floating-point unit rounds to 53 bits.  A result that needs no    *)
(* more digits than that is exact.                                         *)

SigDigits == 8

RECURSIVE NumDigits(_)
NumDigits(n) == IF n < 10 THEN 1 ELSE 1 + NumDigits(n \div 10)

\* n / p to the nearest integer, halves up, for n >= 0.
RoundDiv(n, p) == (n \div p) + (IF 2 * (n % p) >= p THEN 1 ELSE 0)

\* m * 10^e without the trailing zeros of m.
RECURSIVE Strip(_, _)
Strip(m, e) == IF m # 0 /\ m % 10 = 0 THEN Strip(m \div 10, e + 1) ELSE <<m, e>>

\* m * 10^e, m of k digits, rounded to SigDigits digits.
RoundDigits(m, e, k) ==
    IF k > SigDigits
    THEN Strip(RoundDiv(m, 10 ^ (k - SigDigits)), e + (k - SigDigits))
    ELSE Strip(m, e)

\* m * 10^e (m >= 0) rounded to SigDigits digits: <<mantissa, exponent>>.
RoundDec(m, e) == RoundDigits(m, e, NumDigits(m))

\* The number sign * m * 10^e, kept to SigDigits decimal places.
FromDec(sign, m, e) ==
    IF m = 0 THEN <<0, 1>>
    ELSE IF e >= 0 THEN <<sign * m * (10 ^ e), 1>>
    ELSE IF -e <= SigDigits THEN R(sign * m, 10 ^ (-e))
    ELSE IF -e - SigDigits > 9 THEN <<0, 1>>
    ELSE R(sign * RoundDiv(m, 10 ^ (-e - SigDigits)), 10 ^ SigDigits)

\* The number sign * t[1] * 10^t[2].
Signed(sign, t) == FromDec(sign, t[1], t[2])

\* Long division: the digits of (m + r/d) * 10^(-e) until SigDigits of them
\* are out or the division ends: <<digits, remainder, exponent>>.
RECURSIVE DivDigits(_, _, _, _)
DivDigits(m, r, d, e) ==
    IF r = 0 \/ m >= 10 ^ (SigDigits - 1) THEN <<m, r, e>>
    ELSE DivDigits(m * 10 + ((r * 10) \div d), (r * 10) % d, d, e - 1)

\* The digits t of a division by b, rounded by the remainder.
RoundQuotient(t, b) == RoundDec(t[1] + (IF 2 * t[2] >= b THEN 1 ELSE 0), t[3])

\* a / b (a >= 0, b > 0) times 10^e, rounded: <<mantissa, exponent>>.
DecQuotient(a, b, e) == RoundQuotient(DivDigits(a \div b, a % b, b, e), b)

\* <<sign, t[1], t[2]>>
WithSign(sign, t) == <<sign, t[1], t[2]>>

\* A finite number as <<sign, mantissa, exponent>>, rounded to SigDigits.
ToDec(x) == WithSign(RSign(x), DecQuotient(Abs(x[1]), x[2], 0))

\* x rounded to SigDigits significant digits.
Fl(x) == IF ~IsFinite(x) THEN x ELSE Signed(RSign(x), DecQuotient(Abs(x[1]), x[2], 0))

\* T * 10^8 + U, T of k digits, times 10^e, rounded.
RoundWide(T, U, k, e) ==
    IF T = 0 THEN RoundDec(U, e)
    ELSE IF k > 8 THEN RoundDec(RoundDiv(T, 10), e + 9)
    ELSE RoundDec(T * (10 ^ (8 - k)) + (U \div (10 ^ k))
                    + (IF 2 * (U % (10 ^ k)) >= 10 ^ k THEN 1 ELSE 0),
                  e + k)

\* a * b for 0 <= a, b < 10^8, times 10^e, rounded: the product is formed in
\* two halves of 8 digits, T * 10^8 + U.
DecProduct(a, b, e) ==
    LET mid == (a \div 10000) * (b % 10000) + (a % 10000) * (b \div 10000)
        low == (mid % 10000) * 10000 + (a % 10000) * (b % 10000)
        T   == (a \div 10000) * (b \div 10000) + (mid \div 10000) + (low \div 100000000)
    IN  RoundWide(T, low % 100000000, NumDigits(T), e)

FMulDec(a, b) == Signed(a[1] * b[1], DecProduct(a[2], b[2], a[3] + b[3]))

FMul(x, y) ==
    IF ~IsFinite(x) \/ ~IsFinite(y) THEN RMul(x, y)
    ELSE FMulDec(ToDec(x), ToDec(y))

FDivDec(a, b) == Signed(a[1] * b[1], DecQuotient(a[2], b[2], a[3] - b[3]))

FDiv(x, y) ==
    IF ~IsFinite(x) \/ ~IsFinite(y) \/ IsZero(y) THEN RDiv(x, y)
    ELSE FDivDec(ToDec(x), ToDec(y))

\* m * 10^e brought to the exponent et.
Rescale(m, e, et) ==
    IF e >= et THEN m * (10 ^ (e - et))
    ELSE IF et - e > 9 THEN 0
    ELSE RoundDiv(m, 10 ^ (et - e))

Max(i, j) == IF i >= j THEN i ELSE j

Min(i, j) == IF i <= j THEN i ELSE j

\* The exponent at which a + b has at most 9 digits.
SumExponent(a, b) ==
    Max(Min(a[3], b[3]), Max(a[3] + NumDigits(a[2]), b[3] + NumDigits(b[2])) - 9)

RoundSum(sum, et) == Signed(Sign(sum), RoundDec(Abs(sum), et))

FAddAt(a, b, et) ==
    RoundSum(a[1] * Rescale(a[2], a[3], et) + b[1] * Rescale(b[2], b[3], et), et)

FAddDec(a, b) == FAddAt(a, b, SumExponent(a, b))

FAdd(x, y) ==
    IF ~IsFinite(x) \/ ~IsFinite(y) THEN RAdd(x, y)
    ELSE IF IsZero(x) THEN Fl(y)
    ELSE IF IsZero(y) THEN Fl(x)
    ELSE FAddDec(ToDec(x), ToDec(y))

FSub(x, y) == FAdd(x, RNeg(y))

-----------------------------------------------------------------------------
(* Math.PI, Math.sqrt, Math.log10, toFixed                                 *)

\* Math.PI to SigDigits digits.
Pi == R(31415927, 10000000)

\* The largest r in lo..hi with r * r <= n, given lo * lo <= n.
RECURSIVE ISqrtIn(_, _, _)
ISqrtIn(n, lo, hi) ==
    IF lo = hi THEN lo
    ELSE IF ((lo + hi + 1) \div 2) * ((lo + hi + 1) \div 2) <= n
         THEN ISqrtIn(n, (lo + hi + 1) \div 2, hi)
         ELSE ISqrtIn(n, lo, ((lo + hi + 1) \div 2) - 1)

\* m * 10^e with e even and m of 8 or 9 digits.
RECURSIVE EvenExponent(_, _)
EvenExponent(m, e) ==
    IF e % 2 # 0 THEN EvenExponent(m * 10, e - 1)
    ELSE IF m < 10 ^ 7 THEN EvenExponent(m * 100, e - 2)
    ELSE <<m, e>>

\* One step of Newton's iteration for the square root of x.
Newton(x, s) == FDiv(FAdd(s, FDiv(x, s)), I(2))

\* The square root of u[1] * 10^u[2] to 4 digits.
SqrtEstimate(u) == FromDec(1, ISqrtIn(u[1], 0, 31700), u[2] \div 2)

\* The square root of x = t[2] * 10^t[3]: the estimate and two Newton steps.
SqrtOfDec(x, t) == Newton(x, Newton(x, SqrtEstimate(EvenExponent(t[2], t[3]))))

\* Math.sqrt: NaN for a negative argument.
Sqrt(x) ==
    IF IsNaN(x) THEN NaN
    ELSE IF ~IsFinite(x) THEN (IF x[1] > 0 THEN PosInf ELSE NaN)
    ELSE IF x[1] < 0 THEN NaN
    ELSE IF x[1] = 0 THEN x
    ELSE SqrtOfDec(x, ToDec(x))

\* The digits h of (x \div 2) * a / c, doubled, plus (x % 2) * a / c.
Doubled(h, x, a, c) ==
    <<2 * h[1] + ((2 * h[2] + (x % 2) * a) \div c), (2 * h[2] + (x % 2) * a) % c>>

\* <<q, r>> with x * a = q * c + r and 0 <= r < c, for 0 <= a < c, by
\* doubling (no product larger than 3c is formed).
RECURSIVE MulDivMod(_, _, _)
MulDivMod(x, a, c) ==
    IF x = 0 THEN <<0, 0>>
    ELSE Doubled(MulDivMod(x \div 2, a, c), x, a, c)

\* log10 on [1, 10]: breakpoints (x 100) and their logarithms (x 100000).
LogPoints ==
    <<100, 110, 125, 140, 160, 180, 200, 225, 250, 280, 320, 360, 400, 450,
      500, 560, 640, 720, 800, 900, 1000>>

LogValues ==
    <<0, 4139, 9691, 14613, 20412, 25527, 30103, 35218, 39794, 44716, 50515,
      55630, 60206, 65321, 69897, 74819, 80618, 85733, 90309, 95424, 100000>>

\* The segment of the table that holds m in [1, 10).
LogSegment(m) ==
    CHOOSE i \in 1..(Len(LogPoints) - 1) :
        RLe(R(LogPoints[i], 100), m) /\ RLt(m, R(LogPoints[i + 1], 100))

\* The value at the fraction frac of segment j, rounded down.
LogInterpolate(j, frac) ==
    LogValues[j] + MulDivMod(LogValues[j + 1] - LogValues[j], frac[1], frac[2])[1]

LogInSegment(m, j) ==
    LogInterpolate(j, RDiv(RSub(m, R(LogPoints[j], 100)),
                           R(LogPoints[j + 1] - LogPoints[j], 100)))

\* log10 of m in [1, 10), x 100000: linear between the breakpoints.
LogMantissa(m) == LogInSegment(m, LogSegment(m))

\* log10 of a finite x > 0, x 100000: the decade of x plus LogMantissa.
RECURSIVE LogScaled(_)
LogScaled(x) ==
    IF RGe(x, I(10)) THEN 100000 + LogScaled(RDiv(x, I(10)))
    ELSE IF RLt(x, I(1)) THEN LogScaled(RMul(x, I(10))) - 100000
    ELSE LogMantissa(x)

\* Math.log10 to 5 decimals, by linear interpolation in a table (within
\* 0.001 of the true value, and non-decreasing): -Infinity at 0, NaN below 0.
Log10(x) ==
    IF IsNaN(x) THEN NaN
    ELSE IF ~IsFinite(x) THEN (IF x[1] > 0 THEN PosInf ELSE NaN)
    ELSE IF x[1] = 0 THEN <<-1, 0>>
    ELSE IF x[1] < 0 THEN NaN
    ELSE R(LogScaled(Fl(x)), 100000)

\* sign * floor(a) / 100
Hundredths(sign, a) == R(sign * (a[1] \div a[2]), 100)

\* parseFloat(x.toFixed(2)): x to the nearest hundredth, halves away from zero.
ToFixed2(x) ==
    IF ~IsFinite(x) THEN x
    ELSE Hundredths(RSign(x), RAdd(RMul(<<Abs(x[1]), x[2]>>, I(100)), R(1, 2)))

-----------------------------------------------------------------------------
(* Tau_c: src/utils/rccCalculations.ts, lines 7-39                         *)

points == <<R(15, 100), R(25, 100), R(5, 10), R(75, 100), I(1), R(125, 100), R(15, 10), I(2)>>

m20vals ==
    <<R(28, 100), R(36, 100), R(48, 100), R(56, 100), R(62, 100), R(67, 100),
      R(72, 100), R(79, 100)>>

\* while (idx < points.length - 1 && ptLimited > points[idx+1]) idx++;
\* idx counts from 0 as in the code; points[idx] of the code is points[idx + 1].
RECURSIVE tauIndex(_, _)
tauIndex(ptLimited, idx) ==
    IF idx < Len(points) - 1 /\ RGt(ptLimited, points[idx + 2])
    THEN tauIndex(ptLimited, idx + 1)
    ELSE idx

\* tauM20 = t1, or t1 + (t2 - t1) * (ptLimited - p1) / (p2 - p1) if p2 !== p1
interpolate(ptLimited, t1, t2, p1, p2) ==
    IF p2 # p1
    THEN FAdd(t1, FDiv(FMul(FSub(t2, t1), FSub(ptLimited, p1)), FSub(p2, p1)))
    ELSE t1

\* tauM20 between points[idx] and points[Math.min(idx+1, points.length-1)]
tauM20(ptLimited, idx) ==
    interpolate(ptLimited,
                m20vals[idx + 1], m20vals[Min(idx + 1, Len(points) - 1) + 1],
                points[idx + 1], points[Min(idx + 1, Len(points) - 1) + 1])

tauAt(ptLimited, fck) ==
    ToFixed2(FMul(tauM20(ptLimited, tauIndex(ptLimited, 0)),
                  FAdd(I(1), FMul(FSub(fck, I(20)), R(1, 100)))))

\* A variant that does not clamp pt to [0.15, 3.0].
getTauC_noClamp(pt, fck) == tauAt(pt, fck)

getTauC(pt, fck) == tauAt(RMin(RMax(pt, R(15, 100)), I(3)), fck)

-----------------------------------------------------------------------------
(* Deflection check: src/utils/rccCalculations.ts, lines 120-168           *)

\* A variant that takes the ratio upside down, depth over span.
actualLbyD_inverted(spanM, effDepthMm) == FDiv(effDepthMm, FMul(spanM, Thousand))

actualLbyD(spanM, effDepthMm) == FDiv(FMul(spanM, Thousand), effDepthMm)

\* 0.225 + (0.0032 * fs) - (0.625 * Math.log10(safePt))
deflectionDenominator(fs, safePt) ==
    FSub(FAdd(R(225, 1000), FMul(R(32, 10000), fs)),
         FMul(R(625, 1000), Log10(safePt)))

\* Variant: kt without the clamp of line 156
modificationFactorKt_unclamped(denominator) ==
    IF RGt(denominator, I(0)) THEN FDiv(I(1), denominator) ELSE I(1)

\* kt = 1 / denominator if denominator > 0, else 1.0; clamped to [0.7, 2.0]
modificationFactorKt(denominator) ==
    RMin(RMax(IF RGt(denominator, I(0)) THEN FDiv(I(1), denominator) ELSE I(1),
              R(7, 10)),
         I(2))

deflectionVerdict(actual, basicLbyD, kt, allowable) ==
    [ actualLbyD            |-> actual,
      basicLbyD             |-> basicLbyD,
      modificationFactorKt  |-> kt,
      allowableLbyD         |-> allowable,
      deflectionCheckPassed |-> RLe(actual, allowable) ]

deflectionResult(actual, basicLbyD, kt) ==
    deflectionVerdict(actual, basicLbyD, kt, FMul(basicLbyD, kt))

checkDeflection(spanM, effDepthMm, astRequired, astProvided, b, fy) ==
    LET pt          == FMul(FDiv(astProvided, FMul(b, effDepthMm)), I(100))
        fs          == FMul(FMul(R(58, 100), fy), FDiv(astRequired, astProvided))
        safePt      == RMax(pt, R(1, 10))
        denominator == deflectionDenominator(fs, safePt)
    IN  deflectionResult(actualLbyD(spanM, effDepthMm), I(20),
                         modificationFactorKt(denominator))

-----------------------------------------------------------------------------
(* Flexure and shear design: src/utils/rccCalculations.ts, lines 170-242   *)

Million == I(1000000)

\* k_lim: 0.138, 0.133 for Fe500, 0.129 for Fe550
kLim(fy) ==
    IF fy = I(550) THEN R(129, 1000)
    ELSE IF fy = I(500) THEN R(133, 1000)
    ELSE R(138, 1000)

muLim(fck, fy, b, d) ==
    FDiv(FMul(FMul(FMul(FMul(kLim(fy), fck), b), d), d), Million)

\* 1 - 4.6 M 10^6 / (fck b d d)
radicand(M, fck, b, d) ==
    FSub(I(1), FDiv(FMul(R(46, 10), FMul(M, Million)),
                    FMul(FMul(FMul(fck, b), d), d)))

\* A variant without the minimum-steel check.
flexuralSteel_noMinimum(Mu, MuLim, fck, fy, b, d) ==
    LET factor == IF RGt(Mu, MuLim)
                  THEN FSub(I(1), Sqrt(radicand(MuLim, fck, b, d)))
                  ELSE FSub(I(1), Sqrt(RMax(I(0), radicand(Mu, fck, b, d))))
    IN  FMul(FMul(FMul(FDiv(FMul(R(1, 2), fck), fy), factor), b), d)

\* A variant that drops the square root when the section is doubly
\* reinforced, factor = 1, instead of taking it at MuLim.
flexuralSteel_rootDropped(Mu, MuLim, fck, fy, b, d) ==
    LET factor   == IF RGt(Mu, MuLim)
                    THEN I(1)
                    ELSE FSub(I(1), Sqrt(RMax(I(0), radicand(Mu, fck, b, d))))
        computed == FMul(FMul(FMul(FDiv(FMul(R(1, 2), fck), fy), factor), b), d)
        astMin   == FDiv(FMul(FMul(R(85, 100), b), d), fy)
    IN  RMax(computed, astMin)

\* 2. Calculate Ast, and the minimum-steel check: astRequired
flexuralSteel(Mu, MuLim, fck, fy, b, d) ==
    LET factor   == IF RGt(Mu, MuLim)
                    THEN FSub(I(1), Sqrt(radicand(MuLim, fck, b, d)))
                    ELSE FSub(I(1), Sqrt(RMax(I(0), radicand(Mu, fck, b, d))))
        computed == FMul(FMul(FMul(FDiv(FMul(R(1, 2), fck), fy), factor), b), d)
        astMin   == FDiv(FMul(FMul(R(85, 100), b), d), fy)
    IN  RMax(computed, astMin)

\* A variant that calls the section doubly reinforced at Mu = MuLim too.
flexureFor_doublyAtLimit(Mu, MuLim, fck, fy, b, d) ==
    [ muLim              |-> MuLim,
      isDoublyReinforced |-> RGe(Mu, MuLim),
      astRequired        |-> flexuralSteel(Mu, MuLim, fck, fy, b, d) ]

\* 1. Check Limiting Moment, 2. Calculate Ast
flexureFor(Mu, MuLim, fck, fy, b, d) ==
    [ muLim              |-> MuLim,
      isDoublyReinforced |-> RGt(Mu, MuLim),
      astRequired        |-> flexuralSteel(Mu, MuLim, fck, fy, b, d) ]

flexure(inp, an) ==
    flexureFor(an.maxMoment, muLim(inp.fck, inp.fy, inp.beamWidth, an.effectiveDepth),
               inp.fck, inp.fy, inp.beamWidth, an.effectiveDepth)

\* (Math.PI / 4) * dia^2
barArea(dia) == FMul(FDiv(Pi, I(4)), FMul(dia, dia))

steelProvided(numberOfBars, astProvided, b, d) ==
    [ numberOfBars |-> numberOfBars,
      astProvided  |-> astProvided,
      ptProvided   |-> FMul(FDiv(astProvided, FMul(b, d)), I(100)) ]

barsOf(numberOfBars, areaOneBar, b, d) ==
    steelProvided(numberOfBars, FMul(numberOfBars, areaOneBar), b, d)

\* A variant that rounds the bar count down.
provideBars_roundsDown(astRequired, areaOneBar, b, d) ==
    barsOf(RFloor(FDiv(astRequired, areaOneBar)), areaOneBar, b, d)

\* Provide bars: numberOfBars, astProvided, and ptProvided of the shear design
provideBars(astRequired, areaOneBar, b, d) ==
    barsOf(RCeil(FDiv(astRequired, areaOneBar)), areaOneBar, b, d)

\* The shear decision compares tauV with tauC and subtracts tauC b d from
\* Vu 1000, numbers that agree or cancel at the boundary tauV = tauC, where
\* the outcome depends on how 0.32 or 31.28 is rounded in binary.  These are
\* therefore computed in binary floating point, each result rounded to
\* BinDigits significant bits (half to even) where a double keeps 53.  With
\* 13 bits the model and a double give Vus the same sign for the default
\* section at Vu = 31.28.
BinDigits == 13

RECURSIVE Pow2(_)
Pow2(k) == IF k = 0 THEN 1 ELSE 2 * Pow2(k - 1)

\* n/d >= 0 to the nearest integer, halves to even
HalfEven(x) ==
    LET q == x[1] \div x[2]
        r == x[1] % x[2]
    IN  IF 2 * r > x[2] \/ (2 * r = x[2] /\ q % 2 = 1) THEN q + 1 ELSE q

\* m 2^e
Scaled(m, e) == IF e >= 0 THEN I(m * Pow2(e)) ELSE R(m, Pow2(-e))

\* (n/d) 2^e for n/d > 0, rounded to BinDigits significant bits
RECURSIVE BinNormal(_, _, _)
BinNormal(n, d, e) ==
    IF n >= d * Pow2(BinDigits) THEN BinNormal(n, 2 * d, e + 1)
    ELSE IF n < d * Pow2(BinDigits - 1) THEN BinNormal(2 * n, d, e - 1)
    ELSE Scaled(HalfEven(<<n, d>>), e)

\* The floating-point number nearest to x
BinRound(x) ==
    IF ~IsFinite(x) \/ IsZero(x) THEN x
    ELSE IF x[1] < 0 THEN RNeg(BinNormal(-x[1], x[2], 0))
    ELSE BinNormal(x[1], x[2], 0)

BMul(x, y) == BinRound(RMul(BinRound(x), BinRound(y)))

BDiv(x, y) == BinRound(RDiv(BinRound(x), BinRound(y)))

BSub(x, y) == BinRound(RSub(BinRound(x), BinRound(y)))

\* tv = (Vu * 1000) / (b * d)
tauVOf(Vu, b, d) == BDiv(BMul(Vu, Thousand), BMul(b, d))

\* Vus = (Vu * 1000) - (tc * b * d)
VusOf(Vu, tc, b, d) == BSub(BMul(Vu, Thousand), BMul(BMul(tc, b), d))

tcMaxOf(fck) ==
    IF fck = I(40) THEN I(4)
    ELSE IF RGe(fck, I(30)) THEN R(35, 10)
    ELSE IF RGe(fck, I(25)) THEN R(31, 10)
    ELSE R(28, 10)

\* Math.min(stirrupSpacing, 0.75 * d, 300)
capSpacing(stirrupSpacing, d) ==
    RMin(RMin(stirrupSpacing, FMul(R(75, 100), d)), I(300))

\* asv = 2 * (Math.PI / 4) * stirrupBarDia^2
stirrupArea(stirrupBarDia) == FMul(I(2), barArea(stirrupBarDia))

\* (asv * 0.87 * fy) / (0.4 * b)
nominalSpacing(asv, fy, b) == FDiv(FMul(FMul(asv, R(87, 100)), fy), FMul(R(4, 10), b))

\* (0.87 * fy * asv * d) / Vus, Vus = (Vu * 1000) - (tc * b * d)
designSpacing(asv, fy, d, Vus) == FDiv(FMul(FMul(FMul(R(87, 100), fy), asv), d), Vus)

\* A variant without the tv > tcMax branch: a failing section gets designed
\* stirrups.
shearDesign_noFailureBranch(tv, tc, tcMax, Vu, b, d, fy, stirrupBarDia) ==
    IF RLt(tv, BinRound(tc))
    THEN [ shearReinforcementRequired |-> FALSE,
           stirrupSpacing |-> capSpacing(nominalSpacing(stirrupArea(stirrupBarDia), fy, b),
                                         d) ]
    ELSE [ shearReinforcementRequired |-> TRUE,
           stirrupSpacing |->
               capSpacing(designSpacing(stirrupArea(stirrupBarDia), fy, d,
                                        VusOf(Vu, tc, b, d)),
                          d) ]

\* The three-way shear decision; the spacing is not yet floored.
shearDesign(tv, tc, tcMax, Vu, b, d, fy, stirrupBarDia) ==
    IF RGt(tv, BinRound(tcMax))
    THEN [ shearReinforcementRequired |-> FALSE, stirrupSpacing |-> I(0) ]
    ELSE IF RLt(tv, BinRound(tc))
    THEN [ shearReinforcementRequired |-> FALSE,
           stirrupSpacing |-> capSpacing(nominalSpacing(stirrupArea(stirrupBarDia), fy, b),
                                         d) ]
    ELSE [ shearReinforcementRequired |-> TRUE,
           stirrupSpacing |->
               capSpacing(designSpacing(stirrupArea(stirrupBarDia), fy, d,
                                        VusOf(Vu, tc, b, d)),
                          d) ]

\* The shear fields of the result: tauV and the spacing are rounded here.
shearFields(tv, tc, shear) ==
    [ tauV                       |-> ToFixed2(tv),
      tauC                       |-> tc,
      shearReinforcementRequired |-> shear.shearReinforcementRequired,
      stirrupSpacing             |-> RFloor(shear.stirrupSpacing) ]

\* tauV is reported from tv; the decision is taken on tv as the floating-point
\* unit holds it.
shearFor(tv, tc, Vu, fck, fy, b, d, stirrupBarDia) ==
    shearFields(tv, tc,
                shearDesign(tauVOf(Vu, b, d), tc, tcMaxOf(fck), Vu, b, d, fy, stirrupBarDia))

\* 3. Shear Design
shear(inp, an, ptProvided) ==
    shearFor(FDiv(FMul(an.maxShear, Thousand), FMul(inp.beamWidth, an.effectiveDepth)),
             getTauC(ptProvided, inp.fck), an.maxShear, inp.fck, inp.fy,
             inp.beamWidth, an.effectiveDepth, inp.stirrupBarDia)

\* 3. Shear Design, 4. Deflection Check, and the result record
designWith(inp, an, flex, bars) ==
    flex @@ bars @@ shear(inp, an, bars.ptProvided)
         @@ checkDeflection(inp.beamClearSpan, an.effectiveDepth, flex.astRequired,
                            bars.astProvided, inp.beamWidth, inp.fy)

designFrom(inp, an, flex) ==
    designWith(inp, an, flex,
               provideBars(flex.astRequired, barArea(inp.mainBarDia), inp.beamWidth,
                           an.effectiveDepth))

designBeam(inp, an) == designFrom(inp, an, flexure(inp, an))

-----------------------------------------------------------------------------
(* The App's read of the load record (the App of lines 330-1085)           *)

Undefined == "undefined"

\* rec.f as JavaScript reads a property: undefined when the object has none.
Get(rec, f) == IF f \in DOMAIN rec THEN rec[f] ELSE Undefined

\* {loads.factoredPointLoads.length > 0 && (<tr> ... </tr>)}: reading .length
\* of undefined throws a TypeError and the render fails.
loadTableRow(lds) ==
    LET fpl == Get(lds, "factoredPointLoads")
    IN  IF fpl = Undefined THEN "TypeError"
        ELSE IF Len(fpl) > 0 THEN "pointLoadRow" ELSE "noPointLoadRow"

-----------------------------------------------------------------------------
(* Inputs                                                                  *)

NumSpans == 2

NumAspects == 3

MaxPointLoads == 1

NotComputed == "notComputed"

\* useState<DesignInputs>({...}): the inputs the App starts with.
DefaultInputs ==
    [ slabThickness  |-> I(125),
      liveLoad       |-> I(3),
      floorFinish    |-> I(1),
      leftSlab       |-> [enabled |-> TRUE, type |-> "TwoWay", lx |-> I(3),
                          ly |-> R(9, 2), supportEdge |-> "Short"],
      rightSlab      |-> [enabled |-> FALSE, type |-> "TwoWay", lx |-> I(3),
                          ly |-> R(9, 2), supportEdge |-> "Long"],
      pointLoads     |-> <<>>,
      beamWidth      |-> I(230),
      beamDepth      |-> I(450),
      beamClearSpan  |-> I(3),
      effectiveCover |-> I(25),
      wallHeight     |-> I(3),
      wallThickness  |-> I(230),
      masonryDensity |-> I(20),
      fck            |-> I(20),
      fy             |-> I(500),
      mainBarDia     |-> I(16),
      stirrupBarDia  |-> I(8) ]

\* Clear spans in metres: 3, 4.5, ...
Spans == {R(3 * i, 2) : i \in 2..(NumSpans + 1)}

\* Slab panels with Ly >= Lx > 0: Ly/Lx = 1, 1.5, 2, ...
Panels ==
    {<<I(lx), R(lx * (i + 1), 2)>> : lx \in {3, 4}, i \in 1..NumAspects}

LeftSlabs ==
    {[enabled |-> e, type |-> t, lx |-> p[1], ly |-> p[2], supportEdge |-> s] :
        e \in BOOLEAN, t \in {"OneWay", "TwoWay"}, p \in Panels,
        s \in {"Short", "Long"}}

RightSlabs ==
    {[DefaultInputs.rightSlab EXCEPT !.enabled = e, !.type = t] :
        e \in BOOLEAN, t \in {"OneWay", "TwoWay"}}

\* <<slab thickness (mm), live load, floor finish (kN/m2)>>
SlabLoadCases == {<<I(0), I(0), I(0)>>, <<I(125), I(3), I(1)>>, <<I(150), I(2), R(3, 2)>>}

\* <<wall height (m), masonry density (kN/m3)>>: no wall, AAC block, brick
WallCases == {<<I(0), I(20)>>, <<I(3), I(8)>>, <<I(3), I(20)>>}

\* Point loads as addPointLoad creates them (10 kN at midspan), or moved to
\* the quarter point.
PointLoadsOn(span) ==
    {[value |-> I(10), distance |-> RDiv(span, I(k))] : k \in {2, 4}}

RECURSIVE SeqsUpTo(_, _)
SeqsUpTo(S, n) ==
    IF n = 0 THEN {<<>>}
    ELSE LET shorter == SeqsUpTo(S, n - 1)
         IN  shorter \cup {Append(q, e) : q \in {r \in shorter : Len(r) = n - 1}, e \in S}

LoadInputs ==
    {[DefaultInputs EXCEPT
        !.slabThickness = c[1], !.liveLoad = c[2], !.floorFinish = c[3],
        !.leftSlab = l, !.rightSlab = r, !.beamClearSpan = L,
        !.wallHeight = w[1], !.masonryDensity = w[2]] :
        c \in SlabLoadCases, l \in LeftSlabs, r \in RightSlabs, L \in Spans,
        w \in WallCases}

-----------------------------------------------------------------------------
(* The load pipeline: calculateLoads, analyzeBeam, the App's load table    *)

Init ==
    /\ \E base \in LoadInputs :
         \E pls \in SeqsUpTo(PointLoadsOn(base.beamClearSpan), MaxPointLoads) :
            inputs = [base EXCEPT !.pointLoads = pls]
    /\ loads = NotComputed
    /\ analysis = NotComputed
    /\ design = NotComputed
    /\ view = NotComputed
    /\ call = NotComputed
    /\ pc = "inputs"
    /\ AppAtRest

\* const loads = calculateLoads(inputs)
CalculateLoads ==
    /\ pc = "inputs"
    /\ loads' = calculateLoads(inputs)
    /\ pc' = "loads"
    /\ UNCHANGED <<inputs, analysis, design, view, call>>
    /\ UNCHANGED appVars

\* const analysis = analyzeBeam(inputs, loads)
AnalyzeBeam ==
    /\ pc = "loads"
    /\ analysis' = analyzeBeam(inputs, loads)
    /\ pc' = "analysis"
    /\ UNCHANGED <<inputs, loads, design, view, call>>
    /\ UNCHANGED appVars

\* The load table's point-load row, rendered from loads.
LoadTableRow ==
    /\ pc = "analysis"
    /\ view' = loadTableRow(loads)
    /\ pc' = "rendered"
    /\ UNCHANGED <<inputs, loads, analysis, design, call>>
    /\ UNCHANGED appVars

Next == CalculateLoads \/ AnalyzeBeam \/ LoadTableRow

Spec == Init /\ [][Next]_vars

-----------------------------------------------------------------------------
(* Claims about the load pipeline                                          *)

LoadsDone == pc \in {"loads", "analysis", "rendered"}

AnalysisDone == pc \in {"analysis", "rendered"}

\* C1: in every LoadResult, udlTotalSlab = udlFromLeftSlab + udlFromRightSlab
\* and totalDesignUDL is exactly 1.5 x (udlTotalSlab + beamSelfWeight +
\* wallLoad).
C1_TotalDesignUDL ==
    LoadsDone =>
        /\ loads.udlTotalSlab = RAdd(loads.udlFromLeftSlab, loads.udlFromRightSlab)
        /\ loads.totalDesignUDL =
              RDiv(RMul(I(3), RAdd(loads.udlTotalSlab,
                                   RAdd(loads.beamSelfWeight, loads.wallLoad))), I(2))

\* A load record to which both slabs and the wall contribute.
C1_Witness ==
    /\ LoadsDone
    /\ RGt(loads.udlFromLeftSlab, I(0))
    /\ RGt(loads.udlFromRightSlab, I(0))
    /\ RGt(loads.wallLoad, I(0))

\* The left slab's transfer had it borne on the given edge, all else equal.
LeftSlabOn(edge) ==
    IF inputs.leftSlab.supportEdge = edge THEN loads.udlFromLeftSlab
    ELSE calculateSlabLoadPerMeter([inputs.leftSlab EXCEPT !.supportEdge = edge],
                                   loads.totalSlabLoadArea)

LeftSlabTwoWay ==
    /\ LoadsDone
    /\ inputs.leftSlab.enabled
    /\ inputs.leftSlab.type = "TwoWay"
    /\ RGt(inputs.leftSlab.lx, I(0))

\* C2 as stated: for an enabled TwoWay side with Ly >= Lx > 0 (the square
\* panel included), the Short-edge transfer is strictly less than the
\* Long-edge transfer under the same area load.
C2_ShortBelowLong ==
    (LeftSlabTwoWay /\ RGe(inputs.leftSlab.ly, inputs.leftSlab.lx)) =>
        RLt(LeftSlabOn("Short"), LeftSlabOn("Long"))

\* C2 as amended: for an enabled TwoWay side with Ly > Lx > 0 and a positive
\* area load, the Short-edge transfer is strictly less than the Long-edge
\* transfer.
C2_ShortBelowLongOffSquare ==
    (/\ LeftSlabTwoWay
     /\ RGt(inputs.leftSlab.ly, inputs.leftSlab.lx)
     /\ RGt(loads.totalSlabLoadArea, I(0))) =>
        RLt(LeftSlabOn("Short"), LeftSlabOn("Long"))

\* A loaded two-way panel longer than wide, borne on its long edge.
C2_Witness ==
    /\ LeftSlabTwoWay
    /\ RGt(inputs.leftSlab.ly, inputs.leftSlab.lx)
    /\ RGt(loads.totalSlabLoadArea, I(0))
    /\ inputs.leftSlab.supportEdge = "Long"

\* C3: the LoadResult carries factoredPointLoads, one entry per input point
\* load in order, each with 1.5 x the value and the same distance, so the
\* App's read of its length never fails.
C3_FactoredPointLoads ==
    /\ LoadsDone =>
          /\ "factoredPointLoads" \in DOMAIN loads
          /\ Len(loads.factoredPointLoads) = Len(inputs.pointLoads)
          /\ \A i \in 1..Len(inputs.pointLoads) :
                /\ loads.factoredPointLoads[i].value =
                      RMul(R(3, 2), inputs.pointLoads[i].value)
                /\ loads.factoredPointLoads[i].distance = inputs.pointLoads[i].distance
    /\ pc = "rendered" => view # "TypeError"

RECURSIVE RSum(_)
RSum(q) == IF q = <<>> THEN I(0) ELSE RAdd(Head(q), RSum(Tail(q)))

\* The input point loads, factored by 1.5.
FactoredPointLoads ==
    [i \in 1..Len(inputs.pointLoads) |->
        [value    |-> RMul(R(3, 2), inputs.pointLoads[i].value),
         distance |-> inputs.pointLoads[i].distance]]

\* Simply supported span L: the moment at x of the UDL w, and of a point
\* load P at distance d from the left support.
UdlMomentAt(w, L, x) == RDiv(RMul(RMul(w, x), RSub(L, x)), I(2))

PointMomentAt(P, d, L, x) ==
    IF RLe(x, d) THEN RDiv(RMul(RMul(P, x), RSub(L, d)), L)
    ELSE RDiv(RMul(RMul(P, d), RSub(L, x)), L)

TotalMomentAt(x) ==
    LET L == inputs.beamClearSpan
        f == FactoredPointLoads
    IN  RAdd(UdlMomentAt(loads.totalDesignUDL, L, x),
             RSum([i \in 1..Len(f) |-> PointMomentAt(f[i].value, f[i].distance, L, x)]))

\* Is m the largest element of the non-empty set S of numbers?
IsMax(m, S) == m \in S /\ \A y \in S : RLe(y, m)

\* C4: maxShear = w L / 2 + the sum of Pi max(di, L - di) / L over the factored
\* point loads, and maxMoment is the largest total moment over midspan and
\* the point-load locations.
C4_PointLoadSuperposition ==
    AnalysisDone =>
        LET L == inputs.beamClearSpan
            f == FactoredPointLoads
        IN  /\ analysis.maxShear =
                  RAdd(RDiv(RMul(loads.totalDesignUDL, L), I(2)),
                       RSum([i \in 1..Len(f) |->
                                RDiv(RMul(f[i].value,
                                          RMax(f[i].distance, RSub(L, f[i].distance))), L)]))
            /\ IsMax(analysis.maxMoment,
                     {TotalMomentAt(x) :
                         x \in {RDiv(L, I(2))} \cup {f[i].distance : i \in 1..Len(f)}})

\* C5: wallLoad = (wallThickness / 1000) x wallHeight x inputs.masonryDensity,
\* so the wall loads of two inputs that differ only in the density are in the
\* ratio of the densities.
C5_WallLoadFollowsDensity ==
    LoadsDone =>
        /\ loads.wallLoad =
              RMul(RMul(RDiv(inputs.wallThickness, Thousand), inputs.wallHeight),
                   inputs.masonryDensity)
        /\ \A w \in WallCases :
              LET other == calculateLoads([inputs EXCEPT !.masonryDensity = w[2]])
              IN  RMul(other.wallLoad, inputs.masonryDensity) = RMul(loads.wallLoad, w[2])

\* C6: with no point loads, span L > 0 and factored UDL w > 0, maxMoment =
\* w L^2 / 8, maxShear = w L / 2 and effectiveDepth = beamDepth - effectiveCover.
C6_UdlOnly ==
    (/\ AnalysisDone
     /\ inputs.pointLoads = <<>>
     /\ RGt(inputs.beamClearSpan, I(0))
     /\ RGt(loads.totalDesignUDL, I(0))) =>
        LET L == inputs.beamClearSpan
            w == loads.totalDesignUDL
        IN  /\ RMul(I(8), analysis.maxMoment) = RMul(w, RMul(L, L))
            /\ RMul(I(2), analysis.maxShear) = RMul(w, L)
            /\ RAdd(analysis.effectiveDepth, inputs.effectiveCover) = inputs.beamDepth

\* A beam under a positive UDL and no point load, analysed.
C6_Witness ==
    /\ AnalysisDone
    /\ inputs.pointLoads = <<>>
    /\ RGt(inputs.beamClearSpan, I(0))
    /\ RGt(loads.totalDesignUDL, I(0))
    /\ RGt(analysis.maxMoment, I(0))

-----------------------------------------------------------------------------
(* The design pipeline: calculateLoads, analyzeBeam, designBeam            *)

NumWallHeights == 3

NumDepths == 5

\* Wall heights in metres: 0, 3, 6, ...
WallHeights == {I(3 * i) : i \in 0..(NumWallHeights - 1)}

\* Beam depths in mm over the default cover of 25 mm: effective depths of
\* 1, 150 and 425 mm.
BeamDepths == {I(26), I(175), I(450)}

\* The grades and bar diameters of the App's selects.
ConcreteGrades == {I(20), I(25), I(30)}

SteelGrades == {I(415), I(500), I(550)}

MainBarDias == {I(12), I(16), I(25)}

StirrupBarDias == {I(6), I(8), I(10)}

DesignInputs ==
    {[DefaultInputs EXCEPT !.fck = g, !.fy = f, !.mainBarDia = m,
                           !.stirrupBarDia = sd, !.beamDepth = dp,
                           !.beamClearSpan = sp, !.wallHeight = wh,
                           !.leftSlab.enabled = on] :
        g \in ConcreteGrades, f \in SteelGrades, m \in MainBarDias,
        sd \in StirrupBarDias, dp \in BeamDepths, sp \in Spans,
        wh \in WallHeights, on \in BOOLEAN}

InitDesign ==
    /\ inputs \in DesignInputs
    /\ loads = NotComputed
    /\ analysis = NotComputed
    /\ design = NotComputed
    /\ view = NotComputed
    /\ call = NotComputed
    /\ pc = "inputs"
    /\ AppAtRest

\* const design = designBeam(inputs, analysis)
DesignBeam ==
    /\ pc = "analysis"
    /\ design' = designBeam(inputs, analysis)
    /\ pc' = "design"
    /\ UNCHANGED <<inputs, loads, analysis, view, call>>
    /\ UNCHANGED appVars

NextDesign == CalculateLoads \/ AnalyzeBeam \/ DesignBeam

SpecDesign == InitDesign /\ [][NextDesign]_vars

-----------------------------------------------------------------------------
(* checkDeflection called on its own                                       *)

\* Effective depths in mm: 100, 200, ...
EffectiveDepths == {I(100 * i) : i \in 1..NumDepths}

\* <<astRequired, astProvided>> in mm2, astProvided >= astRequired > 0
SteelAreas == {<<I(200), I(200)>>, <<I(200), I(400)>>, <<I(600), I(800)>>, <<I(200), I(4000)>>}

DeflectionArgs ==
    {[spanM |-> sp, effDepthMm |-> d, astRequired |-> a[1], astProvided |-> a[2],
      b |-> w, fy |-> f] :
        sp \in Spans, d \in EffectiveDepths, a \in SteelAreas,
        w \in {I(230), I(300)}, f \in SteelGrades}

checkDeflectionOf(a) ==
    checkDeflection(a.spanM, a.effDepthMm, a.astRequired, a.astProvided, a.b, a.fy)

InitDeflection ==
    /\ call \in {[args |-> a, result |-> NotComputed] : a \in DeflectionArgs}
    /\ inputs = NotComputed
    /\ loads = NotComputed
    /\ analysis = NotComputed
    /\ design = NotComputed
    /\ view = NotComputed
    /\ pc = "call"
    /\ AppAtRest

CheckDeflection ==
    /\ pc = "call"
    /\ call' = [call EXCEPT !.result = checkDeflectionOf(call.args)]
    /\ pc' = "returned"
    /\ UNCHANGED <<inputs, loads, analysis, design, view>>
    /\ UNCHANGED appVars

NextDeflection == CheckDeflection

SpecDeflection == InitDeflection /\ [][NextDeflection]_vars

-----------------------------------------------------------------------------
(* Claims about designBeam and checkDeflection                             *)

DesignDone == pc = "design"

\* (0.85 b d) / fy of the current inputs
AstMinOfInputs ==
    FDiv(FMul(FMul(R(85, 100), inputs.beamWidth), analysis.effectiveDepth), inputs.fy)

\* C7: for b > 0, d > 0 and a design moment Mu >= 0, singly or doubly
\* reinforced, designBeam returns astRequired >= 0.85 b d / fy.
C7_MinimumSteel ==
    (/\ DesignDone
     /\ RGt(inputs.beamWidth, I(0))
     /\ RGt(analysis.effectiveDepth, I(0))
     /\ RGe(analysis.maxMoment, I(0)))
        => RGe(design.astRequired, AstMinOfInputs)

\* The flexural demand is below the minimum, and the minimum is returned.
C7_Witness ==
    /\ DesignDone
    /\ RGt(analysis.maxMoment, I(0))
    /\ RLt(flexuralSteel_noMinimum(analysis.maxMoment, design.muLim, inputs.fck,
                                   inputs.fy, inputs.beamWidth,
                                   analysis.effectiveDepth),
           AstMinOfInputs)
    /\ design.astRequired = AstMinOfInputs

\* tv = Vu 1000 / (b d) of the current inputs
TauVOfInputs ==
    FDiv(FMul(analysis.maxShear, Thousand),
         FMul(inputs.beamWidth, analysis.effectiveDepth))

ShearFailed == RGt(TauVOfInputs, tcMaxOf(inputs.fck))

FlexureAndDeflectionFields ==
    {"muLim", "isDoublyReinforced", "astRequired", "ptProvided", "numberOfBars",
     "astProvided", "tauV", "tauC", "actualLbyD", "basicLbyD",
     "modificationFactorKt", "allowableLbyD", "deflectionCheckPassed"}

\* C8: whenever tv exceeds tc,max for the grade, designBeam returns
\* stirrupSpacing exactly 0 and shearReinforcementRequired = false, and the
\* flexure and deflection fields are still returned.
C8_ShearFailure ==
    (DesignDone /\ ShearFailed)
        => /\ design.stirrupSpacing = I(0)
           /\ design.shearReinforcementRequired = FALSE
           /\ FlexureAndDeflectionFields \subseteq DOMAIN design
           /\ design.astRequired = flexuralSteel(analysis.maxMoment, design.muLim,
                                                 inputs.fck, inputs.fy,
                                                 inputs.beamWidth,
                                                 analysis.effectiveDepth)
           /\ design.actualLbyD = actualLbyD(inputs.beamClearSpan,
                                             analysis.effectiveDepth)

\* A section whose shear stress is beyond tc,max has been designed.
C8_Witness == DesignDone /\ ShearFailed

\* C9: for depth > cover, span > 0, positive width and a selectable stirrup
\* diameter, designBeam returns stirrupSpacing = 0 only if tv > tc,max.
C9_ZeroSpacingOnlyOnFailure ==
    (/\ DesignDone
     /\ RGt(inputs.beamDepth, inputs.effectiveCover)
     /\ RGt(inputs.beamClearSpan, I(0))
     /\ RGt(inputs.beamWidth, I(0))
     /\ inputs.stirrupBarDia \in StirrupBarDias
     /\ design.stirrupSpacing = I(0))
        => ShearFailed

DeflectionDone == pc = "returned"

\* C10: with span, astRequired, astProvided, width and fy fixed, a larger
\* effective depth gives a strictly smaller actualLbyD, and a check passed
\* at depth d is passed at every depth d2 > d.
C10_DeeperIsNoWorse ==
    DeflectionDone =>
        \A d2 \in EffectiveDepths :
            RGt(d2, call.args.effDepthMm) =>
                LET deeper == checkDeflectionOf([call.args EXCEPT !.effDepthMm = d2])
                IN  /\ RLt(deeper.actualLbyD, call.result.actualLbyD)
                    /\ call.result.deflectionCheckPassed
                          => deeper.deflectionCheckPassed

\* A check passed with a modification factor inside its clamps, and a deeper
\* section whose allowable ratio is smaller.
C10_Witness ==
    /\ DeflectionDone
    /\ call.result.deflectionCheckPassed
    /\ RGt(call.result.modificationFactorKt, R(7, 10))
    /\ RLt(call.result.modificationFactorKt, I(2))
    /\ \E d2 \in EffectiveDepths :
          /\ RGt(d2, call.args.effDepthMm)
          /\ RLt(checkDeflectionOf([call.args EXCEPT !.effDepthMm = d2]).allowableLbyD,
                 call.result.allowableLbyD)

-----------------------------------------------------------------------------
(* The default scenario end to end                                         *)

\* |x - v| <= tol: x is v to the decimals that tol stands for.
Near(x, v, tol) == RLe(RSub(x, v), tol) /\ RLe(RSub(v, x), tol)

HalfHundredth == R(5, 1000)

HalfTenth == R(5, 100)

DefaultScenario == DesignDone /\ inputs = DefaultInputs

\* C11 as stated: the default scenario yields udlFromLeftSlab = 6.63,
\* beamSelfWeight = 2.59, wallLoad = 13.8, totalDesignUDL = 34.5,
\* maxMoment = 38.8, maxShear = 51.8 and isDoublyReinforced = false.
C11_DefaultScenarioAsStated ==
    DefaultScenario =>
        /\ Near(loads.udlFromLeftSlab, R(663, 100), HalfHundredth)
        /\ Near(loads.beamSelfWeight, R(259, 100), HalfHundredth)
        /\ Near(loads.wallLoad, R(138, 10), HalfTenth)
        /\ Near(loads.totalDesignUDL, R(345, 10), HalfTenth)
        /\ Near(analysis.maxMoment, R(388, 10), HalfTenth)
        /\ Near(analysis.maxShear, R(518, 10), HalfTenth)
        /\ design.isDoublyReinforced = FALSE

\* C11: the default scenario yields udlFromLeftSlab = 7.125 = (125/1000 25 +
\* 3 + 1) 3 / 3 (7.13 to two decimals), beamSelfWeight = 2.59, wallLoad =
\* 13.8, totalDesignUDL = 35.3, maxMoment = 39.7, maxShear = 52.9 (to one
\* decimal) and isDoublyReinforced = false.
C11_DefaultScenario ==
    DefaultScenario =>
        /\ loads.udlFromLeftSlab = R(7125, 1000)
        /\ Near(loads.udlFromLeftSlab, R(713, 100), HalfHundredth)
        /\ Near(loads.beamSelfWeight, R(259, 100), HalfHundredth)
        /\ Near(loads.wallLoad, R(138, 10), HalfTenth)
        /\ Near(loads.totalDesignUDL, R(353, 10), HalfTenth)
        /\ Near(analysis.maxMoment, R(397, 10), HalfTenth)
        /\ Near(analysis.maxShear, R(529, 10), HalfTenth)
        /\ design.isDoublyReinforced = FALSE

\* The default scenario has been designed, and its moment is below MuLim.
C11_Witness == DefaultScenario /\ RLt(analysis.maxMoment, design.muLim)

-----------------------------------------------------------------------------
(* The App: src/utils/rccCalculations.ts, lines 338-445                    *)
(*                                                                         *)
(* inputs is the object of the App's state.  Its leftSlab, rightSlab and   *)
(* pointLoads are references into heap, because the handlers and           *)
(* handleSaveDesign copy the object with a spread, which shares them.  A   *)
(* point load is written only when it is created.  Every handler action    *)
(* includes the render that follows it (lines 378-380).                    *)

MaxEvents == 3

MaxSaved == 2

\* The JavaScript string s
Str(s) == <<s>>

IsString(v) == Len(v) = 1

\* The number a string converts to when it is multiplied or divided.
ToNumber(v) ==
    IF ~IsString(v) THEN v
    ELSE IF v = Str("") \/ v = Str("0") THEN I(0)
    ELSE NaN

\* parseFloat(value) || value, for the text value of an input field: the
\* text of a non-zero number gives that number; "0" and "" parse to 0 and
\* NaN, which are falsy, and give back the text.
parseFloatOrValue(value) ==
    IF IsString(value) THEN value
    ELSE IF IsZero(value) THEN Str("0")
    ELSE value

\* The DesignInputs the engine reads through the references of inp; the span
\* and the wall height are only multiplied and divided there.
Deref(inp, hp) ==
    [inp EXCEPT !.leftSlab      = hp[inp.leftSlab],
                !.rightSlab     = hp[inp.rightSlab],
                !.pointLoads    = hp[inp.pointLoads],
                !.beamClearSpan = ToNumber(inp.beamClearSpan),
                !.wallHeight    = ToNumber(inp.wallHeight)]

\* const loads = ..., analysis = ..., design = ... of the render on inp
Render(inp, hp) ==
    /\ loads' = calculateLoads(Deref(inp, hp))
    /\ analysis' = analyzeBeam(Deref(inp, hp), loads')
    /\ design' = designBeam(Deref(inp, hp), analysis')

InitApp ==
    /\ heap = <<DefaultInputs.leftSlab, DefaultInputs.rightSlab, <<>>>>
    /\ inputs = [DefaultInputs EXCEPT !.leftSlab = 1, !.rightSlab = 2, !.pointLoads = 3]
    /\ loads = calculateLoads(DefaultInputs)
    /\ analysis = analyzeBeam(DefaultInputs, calculateLoads(DefaultInputs))
    /\ design = designBeam(DefaultInputs,
                           analyzeBeam(DefaultInputs, calculateLoads(DefaultInputs)))
    /\ view = NotComputed
    /\ call = NotComputed
    /\ pc = "app"
    /\ savedDesigns = <<>>
    /\ aiReport = Null
    /\ isGeneratingAi = FALSE
    /\ reports = <<>>
    /\ events = 0

\* One more event is handled.
Event == events < MaxEvents /\ events' = events + 1

HandleInputChange(field, value) ==
    /\ Event
    /\ inputs' = [inputs EXCEPT ![field] = parseFloatOrValue(value)]
    /\ aiReport' = Null
    /\ Render(inputs', heap)
    /\ UNCHANGED <<heap, savedDesigns, isGeneratingAi, reports, view, call, pc>>

\* A variant that writes the field into the slab object in place.
slabChanged_inPlace(hp, inp, side, field, value) ==
    [ heap   |-> [hp EXCEPT ![inp[side]][field] = value],
      inputs |-> inp ]

\* { ...prev, [side]: { ...prev[side], [field]: value } }: a new slab object
slabChanged(hp, inp, side, field, value) ==
    [ heap   |-> Append(hp, [hp[inp[side]] EXCEPT ![field] = value]),
      inputs |-> [inp EXCEPT ![side] = Len(hp) + 1] ]

HandleSlabChange(side, field, value) ==
    /\ Event
    /\ heap' = slabChanged(heap, inputs, side, field, value).heap
    /\ inputs' = slabChanged(heap, inputs, side, field, value).inputs
    /\ aiReport' = Null
    /\ Render(inputs', heap')
    /\ UNCHANGED <<savedDesigns, isGeneratingAi, reports, view, call, pc>>

\* Math.random().toString(36).substr(2, 9): two ids can come out equal.
Ids == {"a", "b"}

\* { ...prev, pointLoads: ... }: the new array pls replaces the old one
WithPointLoads(pls) ==
    /\ heap' = Append(heap, pls)
    /\ inputs' = [inputs EXCEPT !.pointLoads = Len(heap) + 1]
    /\ aiReport' = Null
    /\ Render(inputs', heap')
    /\ UNCHANGED <<savedDesigns, isGeneratingAi, reports, view, call, pc>>

AddPointLoad(id) ==
    /\ Event
    /\ Len(heap[inputs.pointLoads]) < MaxPointLoads
    /\ WithPointLoads(Append(heap[inputs.pointLoads],
                             [id       |-> id,
                              value    |-> I(10),
                              distance |-> RDiv(ToNumber(inputs.beamClearSpan), I(2))]))

\* prev.pointLoads.map(pl => pl.id === id ? { ...pl, [field]: value } : pl)
pointLoadsUpdated(pls, id, field, value) ==
    [i \in 1..Len(pls) |->
        IF pls[i].id = id THEN [pls[i] EXCEPT ![field] = value] ELSE pls[i]]

UpdatePointLoad(id, field, value) ==
    /\ Event
    /\ \E i \in 1..Len(heap[inputs.pointLoads]) : heap[inputs.pointLoads][i].id = id
    /\ WithPointLoads(pointLoadsUpdated(heap[inputs.pointLoads], id, field, value))

\* prev.pointLoads.filter(pl => pl.id !== id)
WithoutId(entries, id) == SelectSeq(entries, LAMBDA e : e.id # id)

RemovePointLoad(id) ==
    /\ Event
    /\ \E i \in 1..Len(heap[inputs.pointLoads]) : heap[inputs.pointLoads][i].id = id
    /\ WithPointLoads(WithoutId(heap[inputs.pointLoads], id))

\* A variant that saves the inputs with the design of the default inputs.
newDesign_staleDesign(id, n, inp, des, lds) ==
    [ id     |-> id,
      name   |-> n,
      inputs |-> inp,
      design |-> designBeam(DefaultInputs,
                            analyzeBeam(DefaultInputs, calculateLoads(DefaultInputs))),
      loads  |-> [totalDesignUDL |-> lds.totalDesignUDL] ]

\* The SavedDesign of handleSaveDesign; n is savedDesigns.length + 1 of the
\* name `Beam B${n}`.  The date is left out.
newDesign(id, n, inp, des, lds) ==
    [ id     |-> id,
      name   |-> n,
      inputs |-> inp,
      design |-> des,
      loads  |-> [totalDesignUDL |-> lds.totalDesignUDL] ]

\* The body of handleSaveDesign
SaveDesign(id) ==
    /\ Len(savedDesigns) < MaxSaved
    /\ savedDesigns' = Append(savedDesigns,
                              newDesign(id, Len(savedDesigns) + 1, inputs, design, loads))
    /\ UNCHANGED <<inputs, loads, analysis, design, heap, aiReport, isGeneratingAi,
                   reports, view, call, pc>>

HandleSaveDesign(id) == Event /\ SaveDesign(id)

\* prev.filter(d => d.id !== id)
deleted(entries, id) == WithoutId(entries, id)

\* The body of deleteSavedDesign, for an id that is in the list
RemoveSaved(id) ==
    /\ \E i \in 1..Len(savedDesigns) : savedDesigns[i].id = id
    /\ savedDesigns' = deleted(savedDesigns, id)
    /\ UNCHANGED <<inputs, loads, analysis, design, heap, aiReport, isGeneratingAi,
                   reports, view, call, pc>>

DeleteSavedDesign(id) == Event /\ RemoveSaved(id)

-----------------------------------------------------------------------------
(* The AI report: src/unnamed/part_000 and handleAiConsultation            *)

ErrorReport == "Error generating AI report. Please check your API key and connection."

NoReport == "Could not generate report."

ReportText == "text"

\* The promise is rejected instead of resolved.
Rejected == "rejected"

\* What can happen inside generateDesignReport.
Outcomes == {"noKey", "promptError", "apiError", "empty", "text"}

\* A variant without the catch clause.
generateDesignReport_noCatch(outcome) ==
    IF outcome = "text" THEN ReportText
    ELSE IF outcome = "empty" THEN NoReport
    ELSE Rejected

\* What the promise of generateDesignReport settles to.  The missing key,
\* an exception while the prompt is built and a failed API call are all
\* thrown inside the try block.
generateDesignReport(outcome) ==
    IF outcome = "text" THEN ReportText
    ELSE IF outcome = "empty" THEN NoReport
    ELSE ErrorReport

\* handleAiConsultation up to its await; the button is disabled while
\* isGeneratingAi (line 1051).  The pending call holds the inputs it was
\* given.
HandleAiConsultation ==
    /\ Event
    /\ ~isGeneratingAi
    /\ isGeneratingAi' = TRUE
    /\ reports' = Append(reports, inputs)
    /\ UNCHANGED <<inputs, loads, analysis, design, heap, savedDesigns, aiReport,
                   view, call, pc>>

\* The rest of handleAiConsultation, run with what the promise settled to;
\* a rejection ends the handler at the await.
Resume(report) ==
    IF report = Rejected
    THEN UNCHANGED <<aiReport, isGeneratingAi>>
    ELSE aiReport' = report /\ isGeneratingAi' = FALSE

\* The API call settles and handleAiConsultation resumes.
SettleReport(outcome) ==
    /\ reports # <<>>
    /\ reports' = Tail(reports)
    /\ Resume(generateDesignReport(outcome))
    /\ UNCHANGED <<inputs, loads, analysis, design, heap, savedDesigns, events,
                   view, call, pc>>

\* The fields and texts typed in the runs checked here.
InputFields == {"beamClearSpan"}

FieldTexts == {I(0), I(2)}

PointLoadDistances == {I(5)}

NextApp ==
    \/ \E field \in InputFields, value \in FieldTexts : HandleInputChange(field, value)
    \/ HandleSlabChange("leftSlab", "enabled", FALSE)
    \/ HandleSlabChange("rightSlab", "type", "OneWay")
    \/ \E id \in Ids : AddPointLoad(id)
    \/ \E id \in Ids, value \in PointLoadDistances : UpdatePointLoad(id, "distance", value)
    \/ \E id \in Ids : RemovePointLoad(id)
    \/ \E id \in Ids : HandleSaveDesign(id)
    \/ \E id \in Ids : DeleteSavedDesign(id)
    \/ HandleAiConsultation
    \/ \E outcome \in Outcomes : SettleReport(outcome)

SpecApp == InitApp /\ [][NextApp]_vars

-----------------------------------------------------------------------------
(* C12                                                                     *)

\* calculateLoads -> analyzeBeam -> designBeam on the inputs inp
pipelineRun(inp) == designBeam(inp, analyzeBeam(inp, calculateLoads(inp)))

\* C12: running the pipeline on the inputs stored in a saved design, read
\* through the references they hold now, gives the design stored with them.
C12_SavedDesignReproduced ==
    \A i \in 1..Len(savedDesigns) :
        pipelineRun(Deref(savedDesigns[i].inputs, heap)) = savedDesigns[i].design

\* A design saved after an edit of the inputs, with later edits behind it.
C12_Witness ==
    \E i \in 1..Len(savedDesigns) :
        /\ savedDesigns[i].inputs # [DefaultInputs EXCEPT !.leftSlab = 1, !.rightSlab = 2,
                                                         !.pointLoads = 3]
        /\ savedDesigns[i].inputs # inputs
        /\ savedDesigns[i].design # design

-----------------------------------------------------------------------------
(* C13: designBeam on degenerate inputs                                    *)

\* Inputs with a zero bar diameter, beam width or stirrup diameter among
\* the usual ones.
DegenerateInputs ==
    {[DefaultInputs EXCEPT !.mainBarDia = m, !.beamWidth = b, !.stirrupBarDia = sd,
                           !.fck = g, !.beamClearSpan = sp] :
        m \in {I(0), I(16)}, b \in {I(0), I(230)}, sd \in {I(0), I(8)},
        g \in ConcreteGrades, sp \in Spans}

InitDegenerate ==
    /\ inputs \in DegenerateInputs
    /\ loads = NotComputed
    /\ analysis = NotComputed
    /\ design = NotComputed
    /\ view = NotComputed
    /\ call = NotComputed
    /\ pc = "inputs"
    /\ AppAtRest

SpecDegenerate == InitDegenerate /\ [][NextDesign]_vars

NumericFields ==
    {"muLim", "astRequired", "ptProvided", "numberOfBars", "astProvided", "tauV", "tauC",
     "stirrupSpacing", "actualLbyD", "basicLbyD", "modificationFactorKt", "allowableLbyD"}

\* C13: every numeric field of the DesignResult is a finite number, also
\* for a zero bar diameter or a zero beam width.
C13_AllFieldsFinite ==
    DesignDone => \A f \in NumericFields : IsFinite(design[f])

-----------------------------------------------------------------------------
(* C14                                                                     *)

\* The API call of a pending report settles in this step.
ReportSettles == Len(reports') < Len(reports)

\* C14: the step in which the API call settles, whatever its outcome, puts
\* the fallback text, 'Could not generate report.' or the report in aiReport,
\* sets isGeneratingAi to false and leaves loads, analysis and design alone;
\* isGeneratingAi is true exactly while a call is pending.
C14_ReportAlwaysSettles ==
    /\ [](isGeneratingAi <=> reports # <<>>)
    /\ [][ReportSettles =>
            /\ aiReport' \in {ErrorReport, NoReport, ReportText}
            /\ isGeneratingAi' = FALSE
            /\ UNCHANGED <<inputs, loads, analysis, design>>]_vars

\* A call that failed has settled, after an edit made the design differ from
\* the default one.
C14_Witness ==
    /\ aiReport = ErrorReport
    /\ ~isGeneratingAi
    /\ reports = <<>>
    /\ design # pipelineRun(DefaultInputs)

-----------------------------------------------------------------------------
(* C15                                                                     *)

\* inputs.pointLoads
PointLoadsNow == heap[inputs.pointLoads]

\* C15: every point load of the inputs lies on the beam,
\* 0 <= distance <= beamClearSpan.
C15_PointLoadsWithinSpan ==
    \A i \in 1..Len(PointLoadsNow) :
        /\ RGe(PointLoadsNow[i].distance, I(0))
        /\ RLe(PointLoadsNow[i].distance, ToNumber(inputs.beamClearSpan))

-----------------------------------------------------------------------------
(* C16                                                                     *)

\* What a saved entry shows when it is read: its inputs with the slab and
\* point-load objects they refer to, and its design.
Snapshot(entry, hp) ==
    [ id     |-> entry.id,
      inputs |-> [entry.inputs EXCEPT !.leftSlab   = hp[entry.inputs.leftSlab],
                                      !.rightSlab  = hp[entry.inputs.rightSlab],
                                      !.pointLoads = hp[entry.inputs.pointLoads]],
      design |-> entry.design ]

Snapshots(entries, hp) == [i \in 1..Len(entries) |-> Snapshot(entries[i], hp)]

-----------------------------------------------------------------------------
(* C17                                                                     *)

\* udl is the reference transfer of the slab side config under the area
\* load w, with the divisions of the reference multiplied out:
\* 0 if disabled, w Lx / 2 if OneWay, w Lx / 3 on the short edge,
\* w Lx / 2 (1 - Lx^2 / (3 Ly^2)) on the long edge.
IsReferenceTransfer(udl, config, w) ==
    IF ~config.enabled THEN udl = I(0)
    ELSE IF config.type = "OneWay" THEN RMul(I(2), udl) = RMul(w, config.lx)
    ELSE IF config.supportEdge = "Short" THEN RMul(I(3), udl) = RMul(w, config.lx)
    ELSE RMul(RMul(I(6), RMul(config.ly, config.ly)), udl)
            = RMul(RMul(w, config.lx),
                   RSub(RMul(I(3), RMul(config.ly, config.ly)),
                        RMul(config.lx, config.lx)))

\* C17: each side's transfer equals the reference for its configuration; with
\* both sides disabled the three slab loads are 0; the transfers are never
\* negative (the inputs have Ly >= Lx > 0 and a non-negative load).
C17_SlabTransfer ==
    LoadsDone =>
        /\ IsReferenceTransfer(loads.udlFromLeftSlab, inputs.leftSlab, loads.totalSlabLoadArea)
        /\ IsReferenceTransfer(loads.udlFromRightSlab, inputs.rightSlab,
                               loads.totalSlabLoadArea)
        /\ (~inputs.leftSlab.enabled /\ ~inputs.rightSlab.enabled
                => loads.udlTotalSlab = I(0))
        /\ RGe(loads.udlFromLeftSlab, I(0))
        /\ RGe(loads.udlFromRightSlab, I(0))

\* A loaded panel with Ly > Lx whose left side is disabled while set to a
\* two-way slab on the long edge, next to an enabled one-way right side.
C17_Witness ==
    /\ LoadsDone
    /\ ~inputs.leftSlab.enabled
    /\ inputs.leftSlab.type = "TwoWay"
    /\ inputs.leftSlab.supportEdge = "Long"
    /\ RGt(inputs.leftSlab.ly, inputs.leftSlab.lx)
    /\ inputs.rightSlab.enabled
    /\ inputs.rightSlab.type = "OneWay"
    /\ RGt(loads.udlFromRightSlab, I(0))
    /\ loads.udlFromLeftSlab = I(0)

-----------------------------------------------------------------------------
(* designBeam called on a section with a moment around its limiting moment *)

\* Sections: grades, bar diameters and depths of the design inputs.
SectionInputs ==
    {[DefaultInputs EXCEPT !.fck = g, !.fy = f, !.mainBarDia = m, !.beamDepth = dp] :
        g \in ConcreteGrades, f \in SteelGrades, m \in MainBarDias, dp \in BeamDepths}

\* Quarters of the limiting moment: Mu = MuLim / 2, MuLim, 1.25 MuLim,
\* 2 MuLim, 10 MuLim
MomentQuarters == {2, 4, 5, 8, 40}

\* The limiting moment designBeam computes for the section of inp.
MuLimOf(inp) ==
    muLim(inp.fck, inp.fy, inp.beamWidth, RSub(inp.beamDepth, inp.effectiveCover))

\* An AnalysisResult for inp with the moment q/4 of the limiting moment.
AnalysisAt(inp, q) ==
    [ maxMoment      |-> RMul(MuLimOf(inp), R(q, 4)),
      maxShear       |-> I(50),
      effectiveDepth |-> RSub(inp.beamDepth, inp.effectiveCover) ]

InitSection ==
    /\ inputs \in SectionInputs
    /\ \E q \in MomentQuarters : analysis = AnalysisAt(inputs, q)
    /\ loads = NotComputed
    /\ design = NotComputed
    /\ view = NotComputed
    /\ call = NotComputed
    /\ pc = "analysis"
    /\ AppAtRest

SpecSection == InitSection /\ [][DesignBeam]_vars

-----------------------------------------------------------------------------
(* C18                                                                     *)

\* k fck b d^2 / 10^6 of the current inputs, exactly, with k by steel grade
ReferenceMuLim ==
    RDiv(RMul(RMul(RMul(IF inputs.fy = I(415) THEN R(138, 1000)
                        ELSE IF inputs.fy = I(500) THEN R(133, 1000)
                        ELSE R(129, 1000),
                        inputs.fck),
                   inputs.beamWidth),
              RMul(analysis.effectiveDepth, analysis.effectiveDepth)),
         I(1000000))

\* C18: isDoublyReinforced is true exactly if Mu > MuLim, so not at
\* Mu = MuLim, and MuLim is k fck b d^2 / 10^6 up to the rounding of the
\* arithmetic (one part in 10^7).
C18_DoublyIffAboveLimit ==
    DesignDone =>
        /\ design.isDoublyReinforced = RGt(analysis.maxMoment, design.muLim)
        /\ RLe(RMul(RSub(design.muLim, ReferenceMuLim), I(10000000)), ReferenceMuLim)
        /\ RLe(RMul(RSub(ReferenceMuLim, design.muLim), I(10000000)), ReferenceMuLim)

\* A section designed at its limiting moment exactly.
C18_Witness ==
    /\ DesignDone
    /\ analysis.maxMoment = design.muLim
    /\ ~design.isDoublyReinforced
    /\ RGt(design.muLim, I(0))

-----------------------------------------------------------------------------
(* C19                                                                     *)

\* The design of the current section at Mu = MuLim.
DesignAtLimit == designBeam(inputs, AnalysisAt(inputs, 4))

\* C19: a doubly reinforced section gets the astRequired, numberOfBars and
\* astProvided of the same section at Mu = MuLim, and the radicand
\* 1 - 4.6 MuLim 10^6 / (fck b d^2) is positive.
C19_SteelCappedAtLimit ==
    DesignDone /\ design.isDoublyReinforced =>
        /\ design.astRequired = DesignAtLimit.astRequired
        /\ design.numberOfBars = DesignAtLimit.numberOfBars
        /\ design.astProvided = DesignAtLimit.astProvided
        /\ RGt(radicand(design.muLim, inputs.fck, inputs.beamWidth, analysis.effectiveDepth),
               I(0))

\* A doubly reinforced section well above its limit whose steel is more
\* than the minimum steel.
C19_Witness ==
    /\ DesignDone
    /\ design.isDoublyReinforced
    /\ RGt(analysis.maxMoment, RMul(design.muLim, I(2)))
    /\ ~DesignAtLimit.isDoublyReinforced
    /\ RGt(design.astRequired, AstMinOfInputs)

-----------------------------------------------------------------------------
(* C20                                                                     *)

\* (Math.PI / 4) * mainBarDia^2 of the current inputs
AreaOneBar == barArea(inputs.mainBarDia)

\* x and v differ by at most one part in 10^5 of v; the rounded arithmetic
\* keeps 8 decimal places, which is 6 digits of a quotient near 0.001.
WithinRounding(x, v) ==
    /\ RLe(RMul(RSub(x, v), I(100000)), v)
    /\ RLe(RMul(RSub(v, x), I(100000)), v)

\* C20: numberOfBars is a whole number n >= 1, the least with
\* n x areaOneBar >= astRequired; astProvided is n x areaOneBar, so
\* astRequired <= astProvided < astRequired + areaOneBar; and ptProvided is
\* 100 astProvided / (b d), each product and quotient up to rounding.
C20_BarsProvided ==
    DesignDone =>
        /\ design.numberOfBars[2] = 1
        /\ design.numberOfBars[1] >= 1
        /\ RGe(RMul(design.numberOfBars, AreaOneBar), design.astRequired)
        /\ RLt(RMul(RSub(design.numberOfBars, I(1)), AreaOneBar), design.astRequired)
        /\ WithinRounding(design.astProvided, RMul(design.numberOfBars, AreaOneBar))
        /\ RGe(design.astProvided, design.astRequired)
        /\ RLt(FSub(design.astProvided, AreaOneBar), design.astRequired)
        /\ WithinRounding(design.ptProvided,
                          FDiv(FMul(I(100), design.astProvided),
                               FMul(inputs.beamWidth, analysis.effectiveDepth)))

\* A design that needs several bars, the last of them only in part.
C20_Witness ==
    /\ DesignDone
    /\ design.numberOfBars[1] >= 3
    /\ RGt(design.astProvided, design.astRequired)
    /\ RGt(design.ptProvided, I(0))

-----------------------------------------------------------------------------
(* C21: designBeam with fck as a number, beyond the ConcreteGrade enum     *)

\* fck as number: the grades M20 to M35 of the enum, and 40 and 45.
GradeNumbers == {I(5 * i) : i \in 4..9}

GradeInputs ==
    {[DefaultInputs EXCEPT !.fck = g, !.fy = f, !.beamDepth = dp, !.beamClearSpan = sp] :
        g \in GradeNumbers, f \in SteelGrades, dp \in BeamDepths, sp \in Spans}

InitGrades ==
    /\ inputs \in GradeInputs
    /\ loads = NotComputed
    /\ analysis = NotComputed
    /\ design = NotComputed
    /\ view = NotComputed
    /\ call = NotComputed
    /\ pc = "inputs"
    /\ AppAtRest

SpecGrades == InitGrades /\ [][NextDesign]_vars

\* 2.8 (fck < 25), 3.1 (25 <= fck < 30), 3.5 (30 <= fck < 40), 4.0 (fck >= 40)
TcMaxStep(fck) ==
    IF RLt(fck, I(25)) THEN R(28, 10)
    ELSE IF RLt(fck, I(30)) THEN R(31, 10)
    ELSE IF RLt(fck, I(40)) THEN R(35, 10)
    ELSE I(4)

-----------------------------------------------------------------------------
(* getTauC called on its own                                               *)

\* Twentieths of pt, in percent: pt = 0, 0.05, ..., 3.5
MaxPtTwentieths == 70

TauCArgs ==
    {[pt |-> R(k, 20), fck |-> g] : k \in 0..MaxPtTwentieths, g \in {I(20), I(25), I(30), I(35)}}

InitTauC ==
    /\ call \in {[args |-> a, result |-> NotComputed] : a \in TauCArgs}
    /\ inputs = NotComputed
    /\ loads = NotComputed
    /\ analysis = NotComputed
    /\ design = NotComputed
    /\ view = NotComputed
    /\ pc = "call"
    /\ AppAtRest

GetTauC ==
    /\ pc = "call"
    /\ call' = [call EXCEPT !.result = getTauC(call.args.pt, call.args.fck)]
    /\ pc' = "returned"
    /\ UNCHANGED <<inputs, loads, analysis, design, view>>
    /\ UNCHANGED appVars

SpecTauC == InitTauC /\ [][GetTauC]_vars

-----------------------------------------------------------------------------
(* C22                                                                     *)

TauCReturned == pc = "returned"

\* The line through the table points i and i + 1, at p, in exact arithmetic.
TableLine(p, i) ==
    RAdd(m20vals[i],
         RDiv(RMul(RSub(m20vals[i + 1], m20vals[i]), RSub(p, points[i])),
              RSub(points[i + 1], points[i])))

\* The linear interpolation of the M20 table at pt clamped to [0.15, 3.0]:
\* the first value up to 0.15, the last value from 2.0 on.
TableAt(pt) ==
    IF RLe(pt, points[1]) THEN m20vals[1]
    ELSE IF RGe(pt, points[Len(points)]) THEN m20vals[Len(points)]
    ELSE TableLine(pt, CHOOSE i \in 1..(Len(points) - 1) :
                            RLe(points[i], pt) /\ RLt(pt, points[i + 1]))

\* The interpolation times 1 + (fck - 20) 0.01, not rounded.
ScaledTableAt(pt, fck) ==
    RMul(TableAt(pt), RAdd(I(1), RMul(RSub(fck, I(20)), R(1, 100))))

\* C22 as stated: getTauC equals the interpolation of the table times the
\* grade factor.
C22_TauCIsInterpolation ==
    TauCReturned => call.result = ScaledTableAt(call.args.pt, call.args.fck)

\* C22: getTauC equals the interpolation of the table at the clamped pt
\* times the grade factor, rounded to two decimals; it does not decrease
\* when pt or fck grows; the table index stays inside the table.
C22_TauCIsRoundedInterpolation ==
    TauCReturned =>
        /\ call.result = ToFixed2(ScaledTableAt(call.args.pt, call.args.fck))
        /\ RLe(call.result, getTauC(RAdd(call.args.pt, R(1, 20)), call.args.fck))
        /\ RLe(call.result, getTauC(call.args.pt, RAdd(call.args.fck, I(5))))
        /\ tauIndex(RMin(RMax(call.args.pt, R(15, 100)), I(3)), 0) \in 0..(Len(points) - 1)

\* A call between two table points whose value is rounded.
C22_Witness ==
    /\ TauCReturned
    /\ RGt(call.args.pt, points[1])
    /\ RLt(call.args.pt, points[Len(points)])
    /\ call.result # ScaledTableAt(call.args.pt, call.args.fck)

-----------------------------------------------------------------------------
(* designBeam called on a section with a shear around tauC b d             *)

\* Sections: grades, steels, stirrup diameters and depths (effective depths
\* of 175, 250 and 400 mm), and the default section of 450 mm in M20.  On
\* these the sign of Vus at tauV = tauC is the same under BinDigits bits as
\* under the 53 bits of a double.
ShearDepths == {I(200), I(275), I(425)}

ShearInputs ==
    {[DefaultInputs EXCEPT !.fck = g, !.fy = f, !.stirrupBarDia = sd, !.beamDepth = dp] :
        g \in ConcreteGrades, f \in {I(415), I(500)}, sd \in StirrupBarDias,
        dp \in ShearDepths}
    \cup {[DefaultInputs EXCEPT !.fy = f, !.stirrupBarDia = sd] :
        f \in {I(415), I(500)}, sd \in StirrupBarDias}

\* A moment of 10 kNm, under which every section takes its minimum steel.
LightMoment == I(10)

\* tauC of the section of inp; it does not depend on the shear.
TauCOf(inp) ==
    designBeam(inp, [maxMoment |-> LightMoment, maxShear |-> I(1),
                     effectiveDepth |-> RSub(inp.beamDepth, inp.effectiveCover)]).tauC

\* Vu in thousandths of tauC b d / 1000, the shear at which tauV = tauC:
\* nominal stirrups below 1000, design stirrups from 1000, failure far above.
ShearPermille == {480, 995, 1000, 1320, 2000, 4000, 10000, 15000}

\* An AnalysisResult for inp with the shear at k thousandths of tauC b d / 1000.
ShearAt(inp, k) ==
    [ maxMoment      |-> LightMoment,
      maxShear       |-> RMul(RDiv(RMul(RMul(TauCOf(inp), inp.beamWidth),
                                        RSub(inp.beamDepth, inp.effectiveCover)),
                                   Thousand),
                              R(k, 1000)),
      effectiveDepth |-> RSub(inp.beamDepth, inp.effectiveCover) ]

InitShear ==
    /\ inputs \in ShearInputs
    /\ \E k \in ShearPermille : analysis = ShearAt(inputs, k)
    /\ loads = NotComputed
    /\ design = NotComputed
    /\ view = NotComputed
    /\ call = NotComputed
    /\ pc = "analysis"
    /\ AppAtRest

SpecShear == InitShear /\ [][DesignBeam]_vars

-----------------------------------------------------------------------------
(* C23                                                                     *)

\* tv, tc and tc,max as designBeam compares them, and Vus, for the current
\* inputs and analysis
TauVNow == tauVOf(analysis.maxShear, inputs.beamWidth, analysis.effectiveDepth)

TauCNow == BinRound(design.tauC)

TcMaxNow == BinRound(tcMaxOf(inputs.fck))

VusNow == VusOf(analysis.maxShear, design.tauC, inputs.beamWidth, analysis.effectiveDepth)

InNominalBranch == RLt(TauVNow, TauCNow) /\ RLe(TauVNow, TcMaxNow)

InDesignBranch == RLe(TauCNow, TauVNow) /\ RLe(TauVNow, TcMaxNow)

\* The three branches decide shearReinforcementRequired and the spacing.
BranchesAsStated ==
    /\ RGt(TauVNow, TcMaxNow) =>
            ~design.shearReinforcementRequired /\ design.stirrupSpacing = I(0)
    /\ InNominalBranch =>
            /\ ~design.shearReinforcementRequired
            /\ design.stirrupSpacing =
                 RFloor(capSpacing(nominalSpacing(stirrupArea(inputs.stirrupBarDia),
                                                  inputs.fy, inputs.beamWidth),
                                   analysis.effectiveDepth))
    /\ InDesignBranch =>
            /\ design.shearReinforcementRequired
            /\ design.stirrupSpacing =
                 RFloor(capSpacing(designSpacing(stirrupArea(inputs.stirrupBarDia),
                                                 inputs.fy, analysis.effectiveDepth, VusNow),
                                   analysis.effectiveDepth))
    /\ design.shearReinforcementRequired <=> InDesignBranch

\* C23: the shear decision is the three-way partition on tauV, and in the
\* design branch Vus = Vu 1000 - tauC b d is not negative.
C23_ThreeWayPartition ==
    DesignDone => BranchesAsStated /\ (InDesignBranch => RGe(VusNow, I(0)))

-----------------------------------------------------------------------------
(* C24                                                                     *)

\* min(0.75 d, 300)
SpacingCap == RMin(RMul(R(3, 4), analysis.effectiveDepth), I(300))

\* C24: in every DesignResult stirrupSpacing is a non-negative integer of at
\* most min(0.75 d, 300).
C24_SpacingWithinCap ==
    DesignDone =>
        /\ IsFinite(design.stirrupSpacing)
        /\ design.stirrupSpacing[2] = 1
        /\ RGe(design.stirrupSpacing, I(0))
        /\ RLe(design.stirrupSpacing, SpacingCap)

-----------------------------------------------------------------------------
(* C25                                                                     *)

\* The denominator of kt for the arguments a (lines 133-147)
denominatorOf(a) ==
    deflectionDenominator(
        FMul(FMul(R(58, 100), a.fy), FDiv(a.astRequired, a.astProvided)),
        RMax(FMul(FDiv(a.astProvided, FMul(a.b, a.effDepthMm)), I(100)), R(1, 10)))

\* span 1000 / d
SpanByDepth == RDiv(RMul(call.args.spanM, Thousand), call.args.effDepthMm)

\* C25: kt lies in [0.7, 2.0] and is 1.0 when the denominator is not
\* positive; basicLbyD is 20; allowableLbyD is 20 kt, within [14, 40];
\* actualLbyD is span 1000 / d; the check passes iff actualLbyD <=
\* allowableLbyD, so it passes whenever span 1000 / d <= 14 and fails
\* whenever span 1000 / d > 40.
C25_DeflectionCheck ==
    DeflectionDone =>
        /\ RGe(call.result.modificationFactorKt, R(7, 10))
        /\ RLe(call.result.modificationFactorKt, I(2))
        /\ RLe(denominatorOf(call.args), I(0)) => call.result.modificationFactorKt = I(1)
        /\ call.result.basicLbyD = I(20)
        /\ WithinRounding(call.result.allowableLbyD,
                          RMul(I(20), call.result.modificationFactorKt))
        /\ RGe(call.result.allowableLbyD, I(14))
        /\ RLe(call.result.allowableLbyD, I(40))
        /\ WithinRounding(call.result.actualLbyD, SpanByDepth)
        /\ call.result.deflectionCheckPassed
              <=> RLe(call.result.actualLbyD, call.result.allowableLbyD)
        /\ RLe(SpanByDepth, I(14)) => call.result.deflectionCheckPassed
        /\ RGt(SpanByDepth, I(40)) => ~call.result.deflectionCheckPassed

\* A check that fails although kt is clamped down from above 2.0.
C25_Witness ==
    /\ DeflectionDone
    /\ RGt(denominatorOf(call.args), I(0))
    /\ RLt(denominatorOf(call.args), R(1, 2))
    /\ call.result.modificationFactorKt = I(2)
    /\ RGt(SpanByDepth, I(40))
    /\ ~call.result.deflectionCheckPassed

-----------------------------------------------------------------------------
(* C26                                                                     *)

\* The values of an inputs object and of the objects it refers to
InputsHeld(inp, hp) ==
    [inp EXCEPT !.leftSlab   = hp[inp.leftSlab],
                !.rightSlab  = hp[inp.rightSlab],
                !.pointLoads = hp[inp.pointLoads]]

\* C26: a report is put on screen only for the inputs currently held: in
\* the step in which a pending call settles and sets aiReport, the inputs
\* that call was given are the inputs of the state.
C26_ReportForCurrentInputs ==
    [][(ReportSettles /\ aiReport' # Null)
            => InputsHeld(Head(reports), heap) = InputsHeld(inputs', heap')]_vars

-----------------------------------------------------------------------------
(* C27                                                                     *)

\* C27: after handleInputChange(field, v) with v the text of a number, "0"
\* included, the field holds the number v and not a string.
C27_FieldsHoldNumbers ==
    [][\A field \in InputFields, value \in FieldTexts :
          HandleInputChange(field, value)
              => ~IsString(inputs'[field]) /\ inputs'[field] = value]_vars

-----------------------------------------------------------------------------
(* C28                                                                     *)

\* C28: with the section, the materials and the stirrup diameter fixed, a
\* larger Vu never gives a wider stirrup spacing.
C28_SpacingFallsWithShear ==
    DesignDone =>
        \A k \in ShearPermille :
            RGt(ShearAt(inputs, k).maxShear, analysis.maxShear)
                => RLe(designBeam(inputs, ShearAt(inputs, k)).stirrupSpacing,
                       design.stirrupSpacing)

-----------------------------------------------------------------------------
(* C30                                                                     *)

\* C30: in a DesignResult with stirrupSpacing > 0, shear reinforcement is
\* not required iff the returned tauV is below the returned tauC.
C30_ShearFieldsConsistent ==
    (DesignDone /\ RGt(design.stirrupSpacing, I(0)))
        => (~design.shearReinforcementRequired <=> RLt(design.tauV, design.tauC))

-----------------------------------------------------------------------------
(* C29: the list of saved designs under any sequence of saves and deletes  *)

\* Edits of the span, counted by events, between saves and deletes, which
\* are not counted: the list is bounded by MaxSaved.
SaveStep(id) == SaveDesign(id) /\ UNCHANGED events

DeleteStep(id) == RemoveSaved(id) /\ UNCHANGED events

NextSaved ==
    \/ \E field \in InputFields, value \in FieldTexts : HandleInputChange(field, value)
    \/ \E id \in Ids : SaveStep(id)
    \/ \E id \in Ids : DeleteStep(id)

SpecSaved == InitApp /\ [][NextSaved]_vars

\* C29: no two entries of savedDesigns have the same display name.
C29_NamesUnique ==
    \A i, j \in 1..Len(savedDesigns) :
        i # j => savedDesigns[i].name # savedDesigns[j].name

====
